---- MODULE Spec2Model ----
(***************************************************************************)
(* A model of the NYT "Archive Search" ingestion pipeline of               *)
(* src/src/data_loader/ingestion.py: the URL builder, the archive fetcher, *)
(* the filter/flatten stage and the stager.                                *)
(*                                                                         *)
(* Python values are modelled as follows.  A text (str) that is written    *)
(* to, or read from, a file or a URL is a sequence of one-character        *)
(* strings; opaque texts (an API key, an article's leaf value) are TLA+    *)
(* strings.  A dict is a function whose DOMAIN is its key set.  A value    *)
(* returned across a call is tagged with its Python type: [t |-> "None"],  *)
(* [t |-> "dict", v |-> d], [t |-> "list", v |-> seq].                     *)
(***************************************************************************)
EXTENDS Integers, Sequences, FiniteSets, TLC

VARIABLES
    pc,            \* position of the driver: which call has returned last
    args,          \* arguments of the call under study
    net,           \* what the network did with the GET of the fetcher
    requests,      \* the GET requests issued so far: <<[url, params]>>
    log,           \* the records emitted through logging.error
    fetched,       \* value returned by extract_nyt_archive
    filtered,      \* value returned by filter_nyt_archive
    raised,        \* exception that left the last call ("none" if it returned)
    url,           \* value returned by construct_nyt_archive_search_url
    file,          \* content of the staging path (NoFile when it does not exist)
    open_handles,  \* number of file handles currently open
    history        \* the stage calls made so far: <<[fs, raised, before, after]>>

vars == <<pc, args, net, requests, log, fetched, filtered, raised, url, file,
          open_handles, history>>

-----------------------------------------------------------------------------
(* Bounds of the model.                                                    *)

MaxDocs == 2

MaxRecords == 2

MaxCalls == 2

-----------------------------------------------------------------------------
(* Python values.                                                          *)

PyNone == [t |-> "None"]

PyDict(d) == [t |-> "dict", v |-> d]

PyList(s) == [t |-> "list", v |-> s]

\* The arguments record of a driver that has not made the call.
NoArgs == [call |-> "none"]

\* All sequences over S of length at most n.
SeqUpTo(S, n) == UNION {[1..k -> S] : k \in 0..n}

-----------------------------------------------------------------------------
(* construct_nyt_archive_search_url                                        *)

DigitChars == <<"0", "1", "2", "3", "4", "5", "6", "7", "8", "9">>

RECURSIVE NatToStr(_)
NatToStr(n) ==
    IF n < 10 THEN <<DigitChars[n + 1]>>
    ELSE NatToStr(n \div 10) \o <<DigitChars[(n % 10) + 1]>>

\* str(n) of a Python int, as an f-string replacement field formats it.
IntToStr(n) == IF n < 0 THEN <<"-">> \o NatToStr(-n) ELSE NatToStr(n)

UrlPrefix ==
    <<"h", "t", "t", "p", "s", ":", "/", "/", "a", "p", "i", ".", "n", "y",
      "t", "i", "m", "e", "s", ".", "c", "o", "m", "/", "s", "v", "c", "/",
      "a", "r", "c", "h", "i", "v", "e", "/">>

UrlSuffix == <<".", "j", "s", "o", "n">>

\* The default of the parameter `version`.
DefaultVersion == <<"v", "1">>

\* A rejecting variant: months outside 1..12 raise instead of being formatted.
construct_url_validating(year, month, version) ==
    IF month \in 1..12
    THEN [raised |-> "none",
          ret |-> UrlPrefix \o version \o <<"/">> \o IntToStr(year) \o <<"/">>
                  \o IntToStr(month) \o UrlSuffix]
    ELSE [raised |-> "ValueError", ret |-> <<>>]

construct_nyt_archive_search_url(year, month, version) ==
    [raised |-> "none",
     ret |-> UrlPrefix \o version \o <<"/">> \o IntToStr(year) \o <<"/">>
             \o IntToStr(month) \o UrlSuffix]

\* A call that leaves `version` out binds it to the default.
construct_nyt_archive_search_url_default(year, month) ==
    construct_nyt_archive_search_url(year, month, DefaultVersion)

-----------------------------------------------------------------------------
(* extract_nyt_archive                                                     *)

\* requests.Response.raise_for_status: HTTPError for a 4xx or 5xx status.
raise_for_status(status) == 400 <= status /\ status < 600

\* A variant of the fetcher that tries a second time after a failure.
extract_with_retry(api_key, year, month, outcome) ==
    LET u == construct_nyt_archive_search_url_default(year, month).ret
        req == [url |-> u, params |-> [api_key |-> api_key]]
    IN  IF outcome.kind = "response" /\ ~raise_for_status(outcome.status)
           /\ outcome.body.t = "dict"
        THEN [requests |-> <<req>>, log |-> <<>>, ret |-> outcome.body,
              raised |-> "none"]
        ELSE [requests |-> <<req, req>>,
              log |-> <<[level |-> "ERROR", from |-> "extract_nyt_archive",
                         err |-> "RequestException"]>>,
              ret |-> PyNone, raised |-> "none"]

extract_nyt_archive(api_key, year, month, outcome) ==
    LET u == construct_nyt_archive_search_url_default(year, month).ret
        req == [url |-> u, params |-> [api_key |-> api_key]]
        caught == [requests |-> <<req>>,
                   log |-> <<[level |-> "ERROR", from |-> "extract_nyt_archive",
                              err |-> "RequestException"]>>,
                   ret |-> PyNone, raised |-> "none"]
    IN  IF outcome.kind \in {"connection_error", "timeout"}
        THEN caught                           \* requests.get raises
        ELSE IF raise_for_status(outcome.status)
        THEN caught                           \* HTTPError
        ELSE IF outcome.body.t = "dict"
        THEN [requests |-> <<req>>, log |-> <<>>, ret |-> outcome.body,
              raised |-> "none"]
        \* res.json() fails: requests.JSONDecodeError is a RequestException
        \* from requests 2.27 on, and a plain ValueError before.
        ELSE IF outcome.decode_error_is_request_exception
        THEN caught
        ELSE [requests |-> <<req>>, log |-> <<>>, ret |-> PyNone,
              raised |-> "ValueError"]

-----------------------------------------------------------------------------
(* filter_nyt_archive                                                      *)

\* The field transformers of the module `transformation`: pure functions of
\* the raw text whose canonical forms are fixed outside this file.
nytas_transform_date(s) == <<"canonical_date", s>>

nytas_transform_author(s) == <<"canonical_author", s>>

FlatFieldSet == {"headline", "publication_date", "author", "news_desk", "url"}

Flattened(rec) == [ok |-> TRUE, rec |-> rec]

KeyError(k) == [ok |-> FALSE, key |-> k]

\* The dict display of the comprehension, its subscriptions in source order.
FlattenArticle(article) ==
    IF "headline" \notin DOMAIN article THEN KeyError("headline")
    ELSE IF "main" \notin DOMAIN article.headline THEN KeyError("main")
    ELSE IF "pub_date" \notin DOMAIN article THEN KeyError("pub_date")
    ELSE IF "byline" \notin DOMAIN article THEN KeyError("byline")
    ELSE IF "original" \notin DOMAIN article.byline THEN KeyError("original")
    ELSE IF "news_desk" \notin DOMAIN article THEN KeyError("news_desk")
    ELSE IF "web_url" \notin DOMAIN article THEN KeyError("web_url")
    ELSE Flattened([headline |-> article.headline.main,
                    publication_date |-> nytas_transform_date(article.pub_date),
                    author |-> nytas_transform_author(article.byline.original),
                    news_desk |-> article.news_desk,
                    url |-> article.web_url])

\* The list comprehension: the first article that raises ends it.
RECURSIVE FlattenAll(_, _, _)
FlattenAll(articles, i, acc) ==
    IF i > Len(articles) THEN [ok |-> TRUE, recs |-> acc]
    ELSE LET r == FlattenArticle(articles[i])
         IN  IF r.ok THEN FlattenAll(articles, i + 1, Append(acc, r.rec))
             ELSE [ok |-> FALSE, key |-> r.key, recs |-> acc]

FilterLog(k) ==
    [level |-> "ERROR", from |-> "filter_nyt_archive", err |-> <<"KeyError", k>>]

\* A lenient variant: on a malformed article it returns what it has so far.
filter_partial(res) ==
    IF res.t # "dict"
    THEN [ret |-> PyNone, log |-> <<>>, raised |-> "TypeError"]
    ELSE IF "response" \notin DOMAIN res.v
    THEN [ret |-> PyNone, log |-> <<FilterLog("response")>>, raised |-> "none"]
    ELSE IF "docs" \notin DOMAIN res.v.response
    THEN [ret |-> PyNone, log |-> <<FilterLog("docs")>>, raised |-> "none"]
    ELSE LET r == FlattenAll(res.v.response.docs, 1, <<>>)
         IN  IF r.ok
             THEN [ret |-> PyList(r.recs), log |-> <<>>, raised |-> "none"]
             ELSE [ret |-> PyList(r.recs), log |-> <<FilterLog(r.key)>>,
                   raised |-> "none"]

\* A variant that also runs news_desk through a transformer.
filter_transforming_desk(res) ==
    IF res.t # "dict"
    THEN [ret |-> PyNone, log |-> <<>>, raised |-> "TypeError"]
    ELSE IF "response" \notin DOMAIN res.v
    THEN [ret |-> PyNone, log |-> <<FilterLog("response")>>, raised |-> "none"]
    ELSE IF "docs" \notin DOMAIN res.v.response
    THEN [ret |-> PyNone, log |-> <<FilterLog("docs")>>, raised |-> "none"]
    ELSE LET r == FlattenAll(res.v.response.docs, 1, <<>>)
         IN  IF r.ok
             THEN [ret |-> PyList([k \in 1..Len(r.recs) |->
                              [r.recs[k] EXCEPT
                                 !.news_desk = nytas_transform_author(@)]]),
                   log |-> <<>>, raised |-> "none"]
             ELSE [ret |-> PyNone, log |-> <<FilterLog(r.key)>>,
                   raised |-> "none"]

filter_nyt_archive(res) ==
    \* Subscripting None raises TypeError, which `except KeyError` lets pass.
    IF res.t # "dict"
    THEN [ret |-> PyNone, log |-> <<>>, raised |-> "TypeError"]
    ELSE IF "response" \notin DOMAIN res.v
    THEN [ret |-> PyNone, log |-> <<FilterLog("response")>>, raised |-> "none"]
    ELSE IF "docs" \notin DOMAIN res.v.response
    THEN [ret |-> PyNone, log |-> <<FilterLog("docs")>>, raised |-> "none"]
    ELSE LET r == FlattenAll(res.v.response.docs, 1, <<>>)
         IN  IF r.ok
             THEN [ret |-> PyList(r.recs), log |-> <<>>, raised |-> "none"]
             ELSE [ret |-> PyNone, log |-> <<FilterLog(r.key)>>,
                   raised |-> "none"]

-----------------------------------------------------------------------------
(* stage: csv.DictWriter(fp, fieldnames=field_names, delimiter="|") on a   *)
(* file opened with mode 'w'.  The writer's dialect is the default one:    *)
(* quotechar '"', doublequote, QUOTE_MINIMAL, lineterminator "\r\n",       *)
(* restval "", extrasaction "raise".  The text layer is that of a POSIX    *)
(* platform, which writes "\n" as it is.                                   *)

Delimiter == "|"

QuoteChar == "\""

LineTerminator == <<"\r", "\n">>

\* The characters of a field name.
NameChars(k) ==
    CASE k = "headline" -> <<"h", "e", "a", "d", "l", "i", "n", "e">>
      [] k = "publication_date" ->
            <<"p", "u", "b", "l", "i", "c", "a", "t", "i", "o", "n", "_",
              "d", "a", "t", "e">>
      [] k = "author" -> <<"a", "u", "t", "h", "o", "r">>
      [] k = "news_desk" -> <<"n", "e", "w", "s", "_", "d", "e", "s", "k">>
      [] k = "url" -> <<"u", "r", "l">>
      [] k = "section" -> <<"s", "e", "c", "t", "i", "o", "n">>

\* QUOTE_MINIMAL: a field is quoted when it holds the delimiter, the quote
\* character or a character of the line terminator.
NeedsQuote(v) ==
    \E i \in 1..Len(v) : v[i] \in {Delimiter, QuoteChar, "\r", "\n"}

RECURSIVE DoubleQuotes(_)
DoubleQuotes(v) ==
    IF v = <<>> THEN <<>>
    ELSE (IF Head(v) = QuoteChar THEN <<QuoteChar, QuoteChar>> ELSE <<Head(v)>>)
         \o DoubleQuotes(Tail(v))

\* A writer that never quotes (QUOTE_NONE without an escape character).
WriteFieldUnquoted(v, nfields) == v

\* One field as the writer emits it; a lone empty field is written as "".
WriteField(v, nfields) ==
    IF NeedsQuote(v) THEN <<QuoteChar>> \o DoubleQuotes(v) \o <<QuoteChar>>
    ELSE IF v = <<>> /\ nfields = 1 THEN <<QuoteChar, QuoteChar>>
    ELSE v

RECURSIVE JoinFields(_, _, _)
JoinFields(row, i, acc) ==
    IF i > Len(row) THEN acc
    ELSE JoinFields(row, i + 1,
                    acc \o (IF i > 1 THEN <<Delimiter>> ELSE <<>>)
                        \o WriteField(row[i], Len(row)))

\* csv.writer.writerow: the text of one row.
WriteRow(row) == JoinFields(row, 1, <<>>) \o LineTerminator

\* A variant of _dict_to_list that leaves a missing key out of the row.
DictToListSkipping(rowdict, field_names) ==
    LET present == SelectSeq(field_names, LAMBDA k : k \in DOMAIN rowdict)
    IN  [ok |-> DOMAIN rowdict \subseteq {field_names[i] : i \in 1..Len(field_names)},
         row |-> [i \in 1..Len(present) |-> rowdict[present[i]]]]

\* csv.DictWriter._dict_to_list: ValueError on a key that is no field name,
\* then the values in the order of the field names, "" for a missing key.
DictToList(rowdict, field_names) ==
    [ok |-> DOMAIN rowdict \subseteq {field_names[i] : i \in 1..Len(field_names)},
     row |-> [i \in 1..Len(field_names) |->
                IF field_names[i] \in DOMAIN rowdict
                THEN rowdict[field_names[i]] ELSE <<>>]]

\* A stage that forgets writer.writeheader().
WriteHeaderOmitted(field_names) == <<>>

\* csv.DictWriter.writeheader: the row of the field names themselves.
WriteHeader(field_names) ==
    WriteRow([i \in 1..Len(field_names) |-> NameChars(field_names[i])])

\* writer.writerows(records): the rows are converted and written one by one;
\* the conversion of row i may raise ValueError and the write of row i may
\* fail (fs.at = i), after the rows before it have been written.
RECURSIVE WriteRows(_, _, _, _, _)
WriteRows(records, field_names, i, text, fs) ==
    IF i > Len(records) THEN [text |-> text, raised |-> "none"]
    ELSE LET r == DictToList(records[i], field_names)
         IN  IF ~r.ok THEN [text |-> text, raised |-> "ValueError"]
             ELSE IF fs.kind = "write_error" /\ fs.at = i
             THEN [text |-> text, raised |-> "OSError"]
             ELSE WriteRows(records, field_names, i + 1,
                            text \o WriteRow(r.row), fs)

\* The body of the `with` block on a freshly truncated file.
WriteAll(records, field_names, fs) ==
    IF fs.kind = "write_error" /\ fs.at = 0
    THEN [text |-> <<>>, raised |-> "OSError"]
    ELSE WriteRows(records, field_names, 1, WriteHeader(field_names), fs)

\* A stage that opens the path with mode 'a'.
stage_appending(records, field_names, before, fs) ==
    IF fs.kind = "open_error"
    THEN [file |-> before, raised |-> "OSError", opened |-> 0, closed |-> 0]
    ELSE LET w == WriteAll(records, field_names, fs)
         IN  [file |-> [exists |-> TRUE, text |-> before.text \o w.text],
              raised |-> w.raised, opened |-> 1, closed |-> 1]

\* A stage that closes the file by hand after writing, without `with`.
stage_unscoped(records, field_names, before, fs) ==
    IF fs.kind = "open_error"
    THEN [file |-> before, raised |-> "OSError", opened |-> 0, closed |-> 0]
    ELSE LET w == WriteAll(records, field_names, fs)
         IN  [file |-> [exists |-> TRUE, text |-> w.text],
              raised |-> w.raised, opened |-> 1,
              closed |-> IF w.raised = "none" THEN 1 ELSE 0]

\* stage(records, field_names, path), with `before` the file at path and fs
\* what the filesystem does.  open(path, 'w') creates or truncates the file;
\* the context manager closes the handle however the block is left; nothing
\* is caught and nothing is logged.
stage(records, field_names, before, fs) ==
    IF fs.kind = "open_error"
    THEN [file |-> before, raised |-> "OSError", opened |-> 0, closed |-> 0]
    ELSE LET w == WriteAll(records, field_names, fs)
         IN  [file |-> [exists |-> TRUE, text |-> w.text],
              raised |-> w.raised, opened |-> 1, closed |-> 1]

-----------------------------------------------------------------------------
(* Inputs of the fetch -> filter pipeline.                                 *)

ApiKeys == {"key-1", "key-2"}

Years == {1851, 2023}

Months == {0, 5, 13}

Statuses == {200, 304, 404, 500}

ArticleA ==
    [headline |-> [main |-> "A", kicker |-> "k"],
     pub_date |-> "2023-05-01T00:00:00Z",
     byline |-> [original |-> "By Jane Doe", person |-> "p"],
     news_desk |-> "Science",
     web_url |-> "https://x/a"]

ArticleB ==
    [headline |-> [main |-> "B", kicker |-> "k"],
     pub_date |-> "2023-05-02T00:00:00Z",
     byline |-> [original |-> "By John Roe", person |-> "p"],
     news_desk |-> "Sports",
     web_url |-> "https://x/b"]

Without(d, k) == [x \in DOMAIN d \ {k} |-> d[x]]

\* ArticleA with one required key taken out.
MalformedArticles ==
    {Without(ArticleA, k) : k \in {"headline", "pub_date", "byline",
                                   "news_desk", "web_url"}}
    \cup {[ArticleA EXCEPT !.headline = Without(@, "main")],
          [ArticleA EXCEPT !.byline = Without(@, "original")]}

Articles == {ArticleA, ArticleB} \cup MalformedArticles

Payloads ==
    {[copyright |-> "c"],
     [copyright |-> "c", response |-> [meta |-> "m"]]}
    \cup {[copyright |-> "c", response |-> [meta |-> "m", docs |-> d]] :
            d \in SeqUpTo(Articles, MaxDocs)}

NotJson == [t |-> "invalid"]

Bodies == {PyDict(p) : p \in Payloads} \cup {NotJson}

NetOutcomes ==
    {[kind |-> "connection_error"], [kind |-> "timeout"]}
    \cup [kind : {"response"}, status : Statuses, body : Bodies,
          decode_error_is_request_exception : BOOLEAN]

-----------------------------------------------------------------------------
(* Inputs of the URL builder.                                              *)

UrlYears == {-1, 0, 1999, 2023}

UrlMonths == 0..13

UrlVersions == {<<"v", "1">>, <<"v", "2">>}

-----------------------------------------------------------------------------
(* Inputs of the stager.                                                   *)

FlatFields == <<"headline", "publication_date", "author", "news_desk", "url">>

FieldOrders ==
    {FlatFields,
     <<"url", "author", "headline", "news_desk", "publication_date">>,
     <<"headline", "url">>}

RecordPlain ==
    [headline |-> <<"A">>, publication_date |-> <<"2", "3">>,
     author |-> <<"J">>, news_desk |-> <<"S">>, url |-> <<"x">>]

\* The delimiter inside a value, and an empty value.
RecordPipe ==
    [headline |-> <<"a", "|", "b">>, publication_date |-> <<"2", "4">>,
     author |-> <<>>, news_desk |-> <<"T">>, url |-> <<"y">>]

\* The quote character and a line break inside values.
RecordQuote ==
    [headline |-> <<"\"">>, publication_date |-> <<"2", "5">>,
     author |-> <<"K">>, news_desk |-> <<"\n">>, url |-> <<"z">>]

\* A record without the key author.
RecordShort == Without(RecordPlain, "author")

\* A record with a key that is no FlatRecord field.
RecordExtra ==
    [headline |-> <<"E">>, publication_date |-> <<"2", "6">>,
     author |-> <<"L">>, news_desk |-> <<"U">>, url |-> <<"w">>,
     section |-> <<"!">>]

StageRecords == {RecordPlain, RecordPipe, RecordQuote, RecordShort, RecordExtra}

NoFile == [exists |-> FALSE, text |-> <<>>]

\* What an earlier stage call with other records and fields left at the path.
StaleFile ==
    [exists |-> TRUE,
     text |-> <<"u", "r", "l", "|", "h", "e", "a", "d", "l", "i", "n", "e",
                "\r", "\n", "o", "|", "O", "\r", "\n">>]

PriorFiles == {NoFile, StaleFile}

\* What the filesystem does during one stage call of n records: nothing
\* wrong, open() fails, or the write of the header (0) or of row k fails.
FsOutcomes(n) ==
    {[kind |-> "ok"], [kind |-> "open_error"]}
    \cup {[kind |-> "write_error", at |-> k] : k \in 0..n}

-----------------------------------------------------------------------------
(* The three drivers.                                                      *)

Idle ==
    /\ net = [kind |-> "none"]
    /\ requests = <<>>
    /\ log = <<>>
    /\ fetched = PyNone
    /\ filtered = PyNone
    /\ raised = "none"
    /\ url = <<>>
    /\ open_handles = 0
    /\ history = <<>>

\* The pipeline: one fetch, then the filter applied to what it returned.
Init ==
    /\ pc = "start"
    /\ args = NoArgs
    /\ file = NoFile
    /\ Idle

Extract ==
    /\ pc = "start"
    /\ \E k \in ApiKeys, y \in Years, m \in Months, o \in NetOutcomes :
         LET r == extract_nyt_archive(k, y, m, o)
         IN  /\ args' = [call |-> "extract", api_key |-> k, year |-> y,
                         month |-> m]
             /\ net' = o
             /\ requests' = requests \o r.requests
             /\ log' = log \o r.log
             /\ fetched' = r.ret
             /\ raised' = r.raised
    /\ pc' = "extracted"
    /\ UNCHANGED <<filtered, url, file, open_handles, history>>

\* The caller hands the fetcher's result to the filter (unless the fetcher
\* raised, in which case the caller never got a result).
Filter ==
    /\ pc = "extracted"
    /\ raised = "none"
    /\ LET r == filter_nyt_archive(fetched)
       IN  /\ filtered' = r.ret
           /\ log' = log \o r.log
           /\ raised' = r.raised
    /\ pc' = "filtered"
    /\ UNCHANGED <<args, net, requests, fetched, url, file, open_handles,
                   history>>

Next == Extract \/ Filter

Spec == Init /\ [][Next]_vars

\* The URL builder applied to one triple, once and once more.
InitUrl ==
    /\ pc = "url_start"
    /\ args \in [call : {"construct"}, year : UrlYears, month : UrlMonths,
                 has_version : {TRUE}, version : UrlVersions]
            \cup [call : {"construct"}, year : UrlYears, month : UrlMonths,
                  has_version : {FALSE}, version : {<<>>}]
    /\ file = NoFile
    /\ Idle

Construct ==
    /\ pc \in {"url_start", "url_done"}
    /\ LET r == IF args.has_version
                THEN construct_nyt_archive_search_url(args.year, args.month,
                                                      args.version)
                ELSE construct_nyt_archive_search_url_default(args.year,
                                                              args.month)
       IN  /\ url' = r.ret
           /\ raised' = r.raised
    /\ pc' = IF pc = "url_start" THEN "url_done" ELSE "url_repeated"
    /\ UNCHANGED <<args, net, requests, log, fetched, filtered, file,
                   open_handles, history>>

NextUrl == Construct

SpecUrl == InitUrl /\ [][NextUrl]_vars

\* The stager called up to MaxCalls times with the same records, field
\* names and path, on a path that may hold an earlier file.
InitStage ==
    /\ pc = "stage_start"
    /\ args \in [call : {"stage"}, records : SeqUpTo(StageRecords, MaxRecords),
                 field_names : FieldOrders]
    /\ file \in PriorFiles
    /\ Idle

Stage ==
    /\ pc \in {"stage_start", "staged"}
    /\ Len(history) < MaxCalls
    /\ \E fs \in FsOutcomes(Len(args.records)) :
         LET r == stage(args.records, args.field_names, file, fs)
         IN  /\ file' = r.file
             /\ raised' = r.raised
             /\ open_handles' = open_handles + r.opened - r.closed
             /\ history' = Append(history, [fs |-> fs, raised |-> r.raised,
                                            before |-> file, after |-> r.file])
    /\ pc' = "staged"
    /\ UNCHANGED <<args, net, requests, log, fetched, filtered, url>>

NextStage == Stage

SpecStage == InitStage /\ [][NextStage]_vars

-----------------------------------------------------------------------------
(* Re-parsing a staged file: csv.reader(fp, delimiter="|") on the file     *)
(* opened with newline="", as a state machine over the characters.  EOL    *)
(* is the end of a physical line.                                          *)

EOL == "EOL"

IsNewline(c) == c \in {"\r", "\n"}

SaveField(st) == [st EXCEPT !.fields = Append(@, st.field), !.field = <<>>]

AddChar(st, c) == [st EXCEPT !.field = Append(@, c)]

AfterField(st, c) ==
    [SaveField(st) EXCEPT !.state = IF c = EOL THEN "START_RECORD"
                                    ELSE "EAT_CRNL"]

StartField(st, c) ==
    IF IsNewline(c) \/ c = EOL THEN AfterField(st, c)
    ELSE IF c = QuoteChar THEN [st EXCEPT !.state = "IN_QUOTED_FIELD"]
    ELSE IF c = Delimiter THEN SaveField(st)
    ELSE [AddChar(st, c) EXCEPT !.state = "IN_FIELD"]

ProcessChar(st, c) ==
    CASE st.state = "START_RECORD" ->
            IF c = EOL THEN st
            ELSE IF IsNewline(c) THEN [st EXCEPT !.state = "EAT_CRNL"]
            ELSE StartField([st EXCEPT !.state = "START_FIELD"], c)
      [] st.state = "START_FIELD" -> StartField(st, c)
      [] st.state = "IN_FIELD" ->
            IF IsNewline(c) \/ c = EOL THEN AfterField(st, c)
            ELSE IF c = Delimiter
            THEN [SaveField(st) EXCEPT !.state = "START_FIELD"]
            ELSE AddChar(st, c)
      [] st.state = "IN_QUOTED_FIELD" ->
            IF c = EOL THEN st
            ELSE IF c = QuoteChar
            THEN [st EXCEPT !.state = "QUOTE_IN_QUOTED_FIELD"]
            ELSE AddChar(st, c)
      [] st.state = "QUOTE_IN_QUOTED_FIELD" ->
            IF c = QuoteChar
            THEN [AddChar(st, c) EXCEPT !.state = "IN_QUOTED_FIELD"]
            ELSE IF c = Delimiter
            THEN [SaveField(st) EXCEPT !.state = "START_FIELD"]
            ELSE IF IsNewline(c) \/ c = EOL THEN AfterField(st, c)
            ELSE [AddChar(st, c) EXCEPT !.state = "IN_FIELD"]
      [] st.state = "EAT_CRNL" ->
            IF IsNewline(c) THEN st
            ELSE IF c = EOL THEN [st EXCEPT !.state = "START_RECORD"]
            ELSE [st EXCEPT !.state = "ERROR"]

\* Character i ends a physical line: "\n", a "\r" not followed by "\n", or
\* the last character of the text.
EndsLine(text, i) ==
    \/ text[i] = "\n"
    \/ text[i] = "\r" /\ (i = Len(text) \/ text[i + 1] # "\n")
    \/ i = Len(text)

\* The reader after character i of the text: the character is processed,
\* then the end of the line if the character ends one, and a row is yielded
\* when that leaves the reader at the start of a record.
ReadChar(st, text, i) ==
    IF st.state = "ERROR" THEN st
    ELSE LET s1 == ProcessChar(st, text[i])
             s2 == IF EndsLine(text, i) THEN ProcessChar(s1, EOL) ELSE s1
         IN  IF EndsLine(text, i) /\ s2.state = "START_RECORD"
             THEN [s2 EXCEPT !.rows = Append(@, s2.fields), !.fields = <<>>]
             ELSE s2

\* The reader run over the characters lo..hi, by halves (the singleton set
\* binds the state after the left half as a value before the right half).
RECURSIVE ReadRange(_, _, _, _)
ReadRange(st, text, lo, hi) ==
    IF lo > hi THEN st
    ELSE IF lo = hi THEN ReadChar(st, text, lo)
    ELSE LET mid == (lo + hi) \div 2
         IN  CHOOSE r \in {ReadRange(left, text, mid + 1, hi) :
                             left \in {ReadRange(st, text, lo, mid)}} : TRUE

\* The rows csv.reader yields for a text.
ReadCsv(text) ==
    ReadRange([state |-> "START_RECORD", field |-> <<>>, fields |-> <<>>,
               rows |-> <<>>], text, 1, Len(text)).rows

\* The records a re-parse with the field order F gives: the rows after the
\* header row, row k read as the dict F[j] |-> k-th row's j-th value.
Reparse(text, F) ==
    LET rows == ReadCsv(text)
    IN  [k \in 1..(Len(rows) - 1) |->
           [n \in {F[j] : j \in 1..Len(rows[k + 1])} |->
              rows[k + 1][CHOOSE j \in 1..Len(rows[k + 1]) : F[j] = n]]]

\* Values joined by the delimiter as they are.
RECURSIVE PlainJoin(_, _)
PlainJoin(row, i) ==
    IF i > Len(row) THEN <<>>
    ELSE (IF i > 1 THEN <<Delimiter>> ELSE <<>>) \o row[i] \o PlainJoin(row, i + 1)

RECURSIVE PlainRows(_, _, _)
PlainRows(records, F, k) ==
    IF k > Len(records) THEN <<>>
    ELSE PlainJoin([j \in 1..Len(F) |-> records[k][F[j]]], 1) \o LineTerminator
         \o PlainRows(records, F, k + 1)

\* The file of the claim: the header line, then one plain line per record.
PlainFile(records, F) ==
    PlainJoin([j \in 1..Len(F) |-> NameChars(F[j])], 1) \o LineTerminator
    \o PlainRows(records, F, 1)

CountLineBreaks(text) == Cardinality({i \in 1..Len(text) : text[i] = "\n"})

FieldSet(F) == {F[j] : j \in 1..Len(F)}

KeysMatch(records, F) ==
    \A k \in 1..Len(records) : DOMAIN records[k] = FieldSet(F)

IsPlain(v) == \A i \in 1..Len(v) : v[i] \notin {Delimiter, QuoteChar, "\r", "\n"}

AllPlain(records) ==
    \A k \in 1..Len(records) : \A n \in DOMAIN records[k] : IsPlain(records[k][n])

\* The last stage call returned normally.
Staged == pc = "staged" /\ raised = "none"

-----------------------------------------------------------------------------
(* Shapes of a payload, stated on the payload alone.                       *)

WellFormed(a) ==
    /\ {"headline", "pub_date", "byline", "news_desk", "web_url"} \subseteq DOMAIN a
    /\ "main" \in DOMAIN a.headline
    /\ "original" \in DOMAIN a.byline

HasDocs(p) == "response" \in DOMAIN p /\ "docs" \in DOMAIN p.response

AllWellFormed(p) ==
    HasDocs(p) /\ \A i \in 1..Len(p.response.docs) : WellFormed(p.response.docs[i])

FilterRan == pc = "filtered" /\ fetched.t = "dict"

ErrorLogsFrom(who) ==
    Cardinality({i \in 1..Len(log) : log[i].level = "ERROR" /\ log[i].from = who})

-----------------------------------------------------------------------------
(* The claims.                                                             *)

\* C1: filter_nyt_archive is all-or-nothing.  Whenever the payload lacks the
\* key response or response.docs, or some article at any index lacks a
\* required key, the call logs one error and returns None for the whole
\* batch, never a list of the records before the malformed article.
C1_AllOrNothing ==
    (FilterRan /\ ~AllWellFormed(fetched.v)) =>
        /\ filtered.t = "None"
        /\ raised = "none"
        /\ ErrorLogsFrom("filter_nyt_archive") = 1

\* A well-formed article followed by a malformed one, filtered to None.
C1_Witness ==
    /\ FilterRan
    /\ HasDocs(fetched.v)
    /\ Len(fetched.v.response.docs) = 2
    /\ WellFormed(fetched.v.response.docs[1])
    /\ ~WellFormed(fetched.v.response.docs[2])
    /\ filtered.t = "None"

\* C2: for a payload of N well-formed articles the filter returns a list of
\* exactly N records in input order, record k having exactly the five keys
\* with headline = headline.main, publication_date and author the
\* transformed pub_date and byline.original, news_desk and url passed
\* through; it logs nothing and leaves the payload as it was.
C2_FlattenWellFormed ==
    (FilterRan /\ AllWellFormed(fetched.v)) =>
        LET docs == fetched.v.response.docs
        IN  /\ filtered.t = "list"
            /\ Len(filtered.v) = Len(docs)
            /\ \A k \in 1..Len(docs) :
                 /\ DOMAIN filtered.v[k] = FlatFieldSet
                 /\ filtered.v[k].headline = docs[k].headline.main
                 /\ filtered.v[k].publication_date
                      = nytas_transform_date(docs[k].pub_date)
                 /\ filtered.v[k].author
                      = nytas_transform_author(docs[k].byline.original)
                 /\ filtered.v[k].news_desk = docs[k].news_desk
                 /\ filtered.v[k].url = docs[k].web_url
            /\ log = <<>>
            /\ raised = "none"
            /\ fetched = net.body

\* Two different well-formed articles flattened to a list.
C2_Witness ==
    /\ FilterRan
    /\ AllWellFormed(fetched.v)
    /\ Len(fetched.v.response.docs) = 2
    /\ fetched.v.response.docs[1] # fetched.v.response.docs[2]
    /\ filtered.t = "list"

Extracted == pc = "extracted"

OneRequest ==
    /\ Len(requests) = 1
    /\ requests[1].url
         = construct_nyt_archive_search_url(args.year, args.month, <<"v", "1">>).ret
    /\ requests[1].params = [api_key |-> args.api_key]

ReturnedBody == fetched = net.body /\ log = <<>> /\ raised = "none"

LoggedAbsence ==
    /\ Len(log) = 1
    /\ log[1].level = "ERROR"
    /\ fetched.t = "None"
    /\ raised = "none"

\* C3 as stated: one GET to the built URL with the key as api-key; on a 2xx
\* response the parsed body is returned and nothing is logged; on any other
\* outcome (non-2xx status, timeout, connection error) exactly one ERROR is
\* logged, None is returned and nothing is raised.
C3_AsStated ==
    Extracted =>
        /\ OneRequest
        /\ IF net.kind = "response" /\ net.status \in 200..299
           THEN ReturnedBody
           ELSE LoggedAbsence

\* C3 as amended: one GET to the built URL with the key as api-key; on a 2xx
\* response whose body is valid JSON the parsed body is returned and nothing
\* is logged; on a 4xx or 5xx status, a timeout or a connection error exactly
\* one ERROR is logged, None is returned and nothing is raised; in every
\* other case at most one ERROR is logged.
C3_SingleAttempt ==
    Extracted =>
        /\ OneRequest
        /\ (net.kind = "response" /\ net.status \in 200..299
              /\ net.body.t = "dict") => ReturnedBody
        /\ (net.kind \in {"timeout", "connection_error"}
              \/ (net.kind = "response" /\ net.status \in 400..599))
             => LoggedAbsence
        /\ Len(log) <= 1

\* A failed fetch (a 404) after which None was returned and one error logged.
C3_Witness ==
    /\ Extracted
    /\ net.kind = "response"
    /\ net.status = 404
    /\ fetched.t = "None"
    /\ Len(log) = 1

\* C10: the filter applied to whatever the fetcher returned, None after a
\* failed fetch included, returns a list of records or None and raises
\* nothing.
C10_FilterOfFetchNeverRaises ==
    pc = "filtered" => raised = "none" /\ filtered.t \in {"list", "None"}

-----------------------------------------------------------------------------

RECURSIVE StrToNat(_, _)
StrToNat(s, acc) ==
    IF s = <<>> THEN acc
    ELSE StrToNat(Tail(s),
                  10 * acc + (CHOOSE d \in 0..9 : DigitChars[d + 1] = Head(s)))

IsDigits(s) ==
    /\ s # <<>>
    /\ \A i \in 1..Len(s) : \E d \in 1..10 : DigitChars[d] = s[i]

\* s is the decimal text of n, without leading zeros or a plus sign.
IsDecimalOf(s, n) ==
    LET digits == IF n < 0 THEN Tail(s) ELSE s
    IN  /\ s # <<>>
        /\ (n < 0) => Head(s) = "-"
        /\ IsDigits(digits)
        /\ (Len(digits) > 1) => Head(digits) # "0"
        /\ StrToNat(digits, 0) = (IF n < 0 THEN -n ELSE n)

\* The segments of s between the occurrences of "/".
RECURSIVE Segments(_, _, _)
Segments(s, cur, acc) ==
    IF s = <<>> THEN Append(acc, cur)
    ELSE IF Head(s) = "/" THEN Segments(Tail(s), <<>>, Append(acc, cur))
    ELSE Segments(Tail(s), Append(cur, Head(s)), acc)

UrlBuilt == pc \in {"url_done", "url_repeated"}

\* C7: construct_nyt_archive_search_url returns, for every year, month and
\* version (months 0 and 13 included) and without raising, the text
\* https://api.nytimes.com/svc/archive/<version>/<year>/<month>.json with
\* the three values in place as they are, version being "v1" when omitted;
\* a second call with the same arguments gives the same text.
C7_UrlTemplate ==
    UrlBuilt =>
        LET version == IF args.has_version THEN args.version ELSE <<"v", "1">>
            rest == SubSeq(url, Len(UrlPrefix) + 1, Len(url))
            segs == Segments(rest, <<>>, <<>>)
        IN  /\ raised = "none"
            /\ Len(url) > Len(UrlPrefix)
            /\ SubSeq(url, 1, Len(UrlPrefix)) = UrlPrefix
            /\ Len(segs) = 3
            /\ segs[1] = version
            /\ IsDecimalOf(segs[2], args.year)
            /\ Len(segs[3]) > Len(UrlSuffix)
            /\ SubSeq(segs[3], Len(segs[3]) - Len(UrlSuffix) + 1, Len(segs[3]))
                 = UrlSuffix
            /\ IsDecimalOf(SubSeq(segs[3], 1, Len(segs[3]) - Len(UrlSuffix)),
                           args.month)
            /\ (args.year = 2023 /\ args.month = 5 /\ ~args.has_version) =>
                 url = UrlPrefix \o <<"v", "1", "/", "2", "0", "2", "3", "/",
                                      "5", ".", "j", "s", "o", "n">>

\* The out-of-range month 13 and a negative year built into a URL, twice.
C7_Witness ==
    /\ pc = "url_repeated"
    /\ args.month = 13
    /\ args.year = -1
    /\ Len(url) > Len(UrlPrefix)

-----------------------------------------------------------------------------

FsWorked(h) == h.fs.kind = "ok"

\* C4: staging is a full overwrite and idempotent.  Whatever the path held
\* before (nothing, an older file, the result of an earlier call), the file
\* left by a stage call whose open and writes succeed is the same: two such
\* calls in a row leave the file of one, with one header and no repeated
\* rows.
C4_Overwrite ==
    pc = "staged" =>
        /\ \A i, j \in 1..Len(history) :
             (FsWorked(history[i]) /\ FsWorked(history[j])) =>
                 history[i].after = history[j].after
        /\ \A i \in 1..Len(history) :
             (FsWorked(history[i]) /\ history[i].raised = "none") =>
                 /\ history[i].after.exists
                 /\ Len(ReadCsv(history[i].after.text)) = Len(args.records) + 1

\* A second successful call on a path that held an older file before the
\* first one.
C4_Witness ==
    /\ pc = "staged"
    /\ Len(history) = 2
    /\ history[1].before = StaleFile
    /\ FsWorked(history[1]) /\ FsWorked(history[2])
    /\ history[2].raised = "none"
    /\ Len(args.records) = 2

\* C5: staging N FlatRecords (values with the delimiter included) under the
\* field names headline, publication_date, author, news_desk, url and
\* re-parsing the file with the same delimiter and field order gives N
\* records, in order, each equal to the original field for field.
C5_RoundTrip ==
    (Staged /\ args.field_names = FlatFields
       /\ KeysMatch(args.records, FlatFields)) =>
        /\ \A k \in 1..Len(ReadCsv(file.text)) :
             Len(ReadCsv(file.text)[k]) = Len(FlatFields)
        /\ Reparse(file.text, FlatFields) = args.records

\* Two records staged, one holding the delimiter and one the quote character
\* and a line break.
C5_Witness ==
    /\ Staged
    /\ args.field_names = FlatFields
    /\ args.records = <<RecordPipe, RecordQuote>>

\* C6 as stated: after a successful stage of N records whose keys equal F
\* the file is N+1 lines: the header, the names of F joined by "|", then per
\* record its values joined by "|" in the order of F.
C6_AsStated ==
    (Staged /\ KeysMatch(args.records, args.field_names)) =>
        /\ file.text = PlainFile(args.records, args.field_names)
        /\ CountLineBreaks(file.text) = Len(args.records) + 1

\* C6 as amended: after a successful stage of N records whose keys equal F
\* the file starts with the header line, the names of F joined by "|", and
\* holds N+1 rows, row k+1 carrying record k's values in the order of F;
\* when no value holds "|", a double quote, a carriage return or a line
\* feed the file is exactly the N+1 lines of "|"-joined values (a value
\* holding one of these is written in double quotes, inner quotes doubled).
C6_HeaderThenRows ==
    (Staged /\ KeysMatch(args.records, args.field_names)) =>
        LET F == args.field_names
            rows == ReadCsv(file.text)
            header == PlainJoin([j \in 1..Len(F) |-> NameChars(F[j])], 1)
                      \o LineTerminator
        IN  /\ Len(file.text) >= Len(header)
            /\ SubSeq(file.text, 1, Len(header)) = header
            /\ Len(rows) = Len(args.records) + 1
            /\ \A k \in 1..Len(args.records) :
                 rows[k + 1] = [j \in 1..Len(F) |-> args.records[k][F[j]]]
            /\ AllPlain(args.records) =>
                 /\ file.text = PlainFile(args.records, F)
                 /\ CountLineBreaks(file.text) = Len(args.records) + 1

\* One plain record staged under a field order that is not the record's own.
C6_Witness ==
    /\ Staged
    /\ args.records = <<RecordPlain>>
    /\ args.field_names = <<"url", "author", "headline", "news_desk",
                            "publication_date">>
    /\ CountLineBreaks(file.text) = 2

\* The filesystem failed during call h: open() failed, or the write of the
\* header or of a row that the writer got as far as writing.
FsFailed(h) ==
    \/ h.fs.kind = "open_error"
    \/ /\ h.fs.kind = "write_error"
       /\ \A k \in 1..h.fs.at :
            DOMAIN args.records[k] \subseteq FieldSet(args.field_names)

\* C8: a stage call that fails while opening or writing the path lets the
\* error reach the caller, uncaught and unlogged, and however a call ends
\* its file handle is closed: after any sequence of calls no handle is open.
C8_NoLeakedHandle ==
    pc = "staged" =>
        /\ open_handles = 0
        /\ log = <<>>
        /\ \A i \in 1..Len(history) :
             FsFailed(history[i]) => history[i].raised = "OSError"

\* A call that failed while writing, followed by one more call.
C8_Witness ==
    /\ pc = "staged"
    /\ Len(history) = 2
    /\ history[1].fs.kind = "write_error"
    /\ history[1].raised = "OSError"
    /\ history[2].fs.kind = "open_error"

\* C9: after a stage call that returns normally every data row has as many
\* fields as the header, len(field_names); row k carries record k's values
\* in the order of field_names when the keys of every record are exactly
\* the field names; and no record with a key outside field_names is among
\* the records of a call that returned normally.
C9_RowWidth ==
    Staged =>
        LET F == args.field_names
            rows == ReadCsv(file.text)
        IN  /\ Len(rows) = Len(args.records) + 1
            /\ \A k \in 1..Len(rows) : Len(rows[k]) = Len(F)
            /\ KeysMatch(args.records, F) =>
                 \A k \in 1..Len(args.records) : \A j \in 1..Len(F) :
                     rows[k + 1][j] = args.records[k][F[j]]
            /\ \A k \in 1..Len(args.records) :
                 DOMAIN args.records[k] \subseteq FieldSet(F)

\* A record without the key author staged normally under the five names.
C9_Witness ==
    /\ Staged
    /\ args.field_names = FlatFields
    /\ args.records = <<RecordPlain, RecordShort>>
    /\ Len(ReadCsv(file.text)) = 3

====
